---------------------------- MODULE Spec2Model ----------------------------
(***************************************************************************)
(* A model of bot.py: the Telegram file bot.  Operators (ADMINS) upload    *)
(* files, which are forwarded to the dump channel and recorded in the      *)
(* store; requesters redeem an identifier through /start, the "verify"     *)
(* callback, or the HTTP endpoints /get/file/{id} and /get/batch/{id}.     *)
(*                                                                         *)
(* Strings the code slices or tests by prefix (the /start payload, the     *)
(* callback data, the link) are sequences of one-character strings.        *)
(* Collaborators (Telegram, MongoDB) are inputs of the actions: the        *)
(* standing a group reports for the requester, and the call that raises.   *)
(***************************************************************************)
EXTENDS Integers, Sequences, FiniteSets, Bags, TLC

(* ------------------------------ bounds --------------------------------- *)

\* Messages forwarded to the dump channel at most.
MaxArchive == 1
\* Messages a batch session holds at most.
MaxPending == 2
\* Join prompts (messages with a Verify button) alive at the same time.
MaxPrompts == 1

(* --------------------------- configuration ----------------------------- *)

\* The users that send events.  ADMINS, read from the environment at import,
\* is part of the state: a deployment lists one of them, or both.
Users == {1, 2}
VARIABLE ADMINS
DUMP_CHANNEL == 1000
FORCE_SUBS == <<101, 102>>
RAILWAY_STATIC_URL == <<"h">>

Groups == {FORCE_SUBS[i] : i \in 1..Len(FORCE_SUBS)}

\* What get_chat_member answers: a ChatMember status, or it raises ("error").
Status == {"member", "left", "kicked", "error"}
\* The answers of the groups to one run of the membership check; Unasked
\* when the handler does not run it.
Unasked == [g \in Groups |-> "unasked"]
Standings == [Groups -> Status \cup {"unasked"}]

\* uuid.uuid4() as text.  Drawing an id that is in use has negligible
\* probability; the pool is one larger than the records the bounds allow, so
\* that an unused id is always left.
Letters == <<"a", "b", "c", "d", "e", "f">>
IdPool == {<<Letters[i]>> : i \in 1..(MaxArchive + 1)}

None == "None"

(* ------------------------------ strings -------------------------------- *)

FILE_ == <<"f", "i", "l", "e", "_">>
BATCH_ == <<"b", "a", "t", "c", "h", "_">>
VERIFY_ == <<"v", "e", "r", "i", "f", "y", "_">>
GET_ == <<"/", "g", "e", "t", "/">>

\* str.startswith
startswith(s, p) == Len(s) >= Len(p) /\ SubSeq(s, 1, Len(p)) = p

\* s[n:]
slice_from(s, n) == SubSeq(s, n + 1, Len(s))

(* ------------------------------ helpers -------------------------------- *)

\* is_admin letting everyone through.
is_admin_anyone(user_id) == TRUE

is_admin(user_id) == user_id \in ADMINS

\* The answers a run of the check got: the channels after the queried-th
\* were not asked.
answers(st, queried) ==
    [g \in Groups |->
        IF \E i \in 1..queried : FORCE_SUBS[i] = g THEN st[g] ELSE "unasked"]

\* st is what one run of the check is answered: a status for each of the
\* channels asked, the first `queried` ones, and nothing for the others.
answered(st, queried) ==
    /\ st = answers(st, queried)
    /\ \A i \in 1..queried : st[FORCE_SUBS[i]] \in Status

RECURSIVE check_from(_, _)
\* The loop of check_membership from the i-th channel on: the first status
\* "left" or "kicked" returns False, the first error raises.
check_from(i, st) ==
    IF i > Len(FORCE_SUBS)
    THEN [allowed |-> TRUE, exc |-> FALSE, queried |-> Len(FORCE_SUBS)]
    ELSE IF st[FORCE_SUBS[i]] = "error"
         THEN [allowed |-> FALSE, exc |-> TRUE, queried |-> i]
         ELSE IF st[FORCE_SUBS[i]] \in {"left", "kicked"}
              THEN [allowed |-> FALSE, exc |-> FALSE, queried |-> i]
              ELSE check_from(i + 1, st)

\* The answers one run of the check can get: a status for each channel up
\* to the one that ends the loop, and nothing for the channels after it.
Asked == {st \in Standings : answered(st, check_from(1, st).queried)}

\* The answers a handler can get: none when it does not reach the check.
standings_for(reached) == IF reached THEN Asked ELSE {Unasked}

\* check_membership with the exception handler returning True.
check_membership_failopen(st) ==
    LET r == check_from(1, st)
    IN  [allowed |-> r.allowed \/ r.exc, raised |-> FALSE, queried |-> r.queried]

\* check_membership: `except Exception` turns every error into False.
check_membership(st) ==
    LET r == check_from(1, st)
    IN  [allowed |-> r.allowed /\ ~r.exc, raised |-> FALSE, queried |-> r.queried]

\* generate_link: the URL of the HTTP endpoint for the identifier.
generate_link(file_id, is_batch) ==
    RAILWAY_STATIC_URL \o GET_
        \o (IF is_batch THEN <<"b", "a", "t", "c", "h">> ELSE <<"f", "i", "l", "e">>)
        \o <<"/">> \o file_id

\* The routes @web_app.get("/get/file/{file_id}") and ("/get/batch/{batch_id}").
FILE_ROUTE == RAILWAY_STATIC_URL \o GET_ \o <<"f", "i", "l", "e", "/">>
BATCH_ROUTE == RAILWAY_STATIC_URL \o GET_ \o <<"b", "a", "t", "c", "h", "/">>

(* ----------------------------- dictionaries ---------------------------- *)

\* context.user_data of a user: a dict, empty or holding a batch session.
EmptyDict == [k \in {} |-> FALSE]
NewSession ==
    [k \in {"batch_mode", "batch_files", "batch_messages"} |->
        IF k = "batch_mode" THEN TRUE ELSE <<>>]

\* The truth value of d.get(k) for the flag, and d.get(k) or [] for a list.
get_flag(d, k) == IF k \in DOMAIN d THEN d[k] ELSE FALSE
get_list(d, k) == IF k \in DOMAIN d THEN d[k] ELSE <<>>

\* find_one that has a document for every id.
find_one_any(col, id) ==
    IF id \in DOMAIN col THEN <<col[id]>>
    ELSE <<[message_id |-> 0, file_id |-> None, uploader |-> 0]>>

\* find_one by _id: the document, here as a sequence of one, or None as <<>>.
find_one(col, id) == IF id \in DOMAIN col THEN <<col[id]>> ELSE <<>>

\* insert_one keeping the new document alone.
insert_one_replacing(col, id, doc) == [x \in {id} |-> doc]

\* insert_one into a collection keyed by _id.
insert_one(col, id, doc) ==
    [x \in (DOMAIN col) \cup {id} |-> IF x = id THEN doc ELSE col[x]]

(* ------------------------------ messages ------------------------------- *)

\* An upload: a document, or a photo with its sizes (the last is the largest).
Uploads ==
    { [document |-> "d1", photo |-> <<>>],
      [document |-> None, photo |-> <<"p1s", "p1">>] }

\* The message of a /batch command: text only.
CommandMessage(u) == [from |-> u, document |-> None, photo |-> <<>>]

\* What the dump channel holds of a forwarded message.
Forwarded(u, msg) == [from |-> u, document |-> msg.document, photo |-> msg.photo]

(* ------------------------------- state --------------------------------- *)

VARIABLES
    startup_pc,     \* where the startup hook stands
    files_col,      \* db.files: _id -> [message_id, file_id, uploader]
    batches_col,    \* db.batches: _id -> [files]
    archive,        \* the dump channel: message_id i is archive[i]
    user_data,      \* context.user_data per user
    prompts,        \* the join prompts with a Verify button: a bag of [chat, data]
    last            \* the event handled last and what the handler did

vars == <<ADMINS, startup_pc, files_col, batches_col, archive, user_data, prompts, last>>

NoEvent ==
    [ h |-> "init", user |-> 0, arg |-> <<>>, data |-> <<>>, err |-> "none",
      standing |-> Unasked, gate |-> "none", queried |-> 0,
      fault |-> "none", sent |-> <<>>, served |-> <<>>,
      reply |-> "none", link |-> <<>>, joins |-> <<>>, pending |-> <<>>,
      caught |-> "none" ]

\* The store and the dump channel outlive the process: the bot starts on an
\* empty database, or on one an earlier deployment left a batch and a file in.
SeedBatchId == <<"s">>
SeedFileId == <<"t">>
SeedFile == [message_id |-> 1, file_id |-> "d1", uploader |-> 1]
SeedArchive ==
    << [from |-> 1, document |-> "d1", photo |-> <<>>],
       [from |-> 1, document |-> "d2", photo |-> <<>>] >>
SeedBatch ==
    [files |-> << [message_id |-> 1, file_id |-> "d1"],
                  [message_id |-> 2, file_id |-> "d2"] >>]

Init ==
    /\ ADMINS = {1}
    /\ startup_pc = "get_webhook_info"
    /\ files_col = [x \in {} |-> FALSE]
    /\ batches_col = [x \in {} |-> FALSE]
    /\ archive = <<>>
    /\ user_data = [u \in Users |-> EmptyDict]
    /\ prompts = EmptyBag
    /\ last = NoEvent

\* The start on the database of the earlier deployment.
InitRestart ==
    /\ ADMINS = {1}
    /\ startup_pc = "get_webhook_info"
    /\ files_col = [x \in {SeedFileId} |-> SeedFile]
    /\ batches_col = [x \in {SeedBatchId} |-> SeedBatch]
    /\ archive = SeedArchive
    /\ user_data = [u \in Users |-> EmptyDict]
    /\ prompts = EmptyBag
    /\ last = NoEvent

\* Whether the dump channel has room for n more forwards.
Restarted == SeedBatchId \in DOMAIN batches_col
archive_room(n) ==
    Len(archive) + n <= MaxArchive + (IF Restarted THEN Len(SeedArchive) ELSE 0)

(* ------------------------- redemption: /start -------------------------- *)

\* handle_file_request: what the handler does for requester u and file_id,
\* when the groups answer st and the call named err raises.
handle_file_request(u, file_id, st, err) ==
    LET base == [NoEvent EXCEPT !.h = "start", !.user = u]
        file_data == find_one(files_col, file_id)
        m == check_membership(st)
        asked == [base EXCEPT !.standing = answers(st, m.queried)]
    IN  IF err = "db"
        THEN [base EXCEPT !.err = "db", !.fault = "DbError"]
        ELSE IF file_data = <<>>
        THEN [base EXCEPT !.reply = "file_not_found"]
        ELSE IF m.raised
        THEN [asked EXCEPT !.queried = m.queried, !.fault = "MembershipError"]
        ELSE IF m.allowed
        THEN IF err = "copy"
             THEN [asked EXCEPT !.gate = "allow", !.queried = m.queried,
                               !.err = "copy", !.fault = "TelegramError"]
             ELSE [asked EXCEPT !.gate = "allow", !.queried = m.queried,
                               !.sent = <<[to |-> u, chat |-> DUMP_CHANNEL,
                                           message_id |-> file_data[1].message_id]>>]
        ELSE [asked EXCEPT !.gate = "deny", !.queried = m.queried,
                          !.reply = "join_prompt", !.joins = FORCE_SUBS,
                          !.data = VERIFY_ \o file_id]

\* start below the upsert: the dispatch on context.args.
start_dispatch(u, args, st, err) ==
    LET base == [NoEvent EXCEPT !.h = "start", !.user = u]
    IN  IF args /= <<>>
        THEN IF startswith(args[1], FILE_)
             THEN handle_file_request(u, slice_from(args[1], 5), st, err)
             ELSE IF startswith(args[1], BATCH_)
                  THEN \* handle_batch_request is defined nowhere
                       [base EXCEPT !.fault = "NameError"]
                  ELSE base
        ELSE IF is_admin(u)
             THEN [base EXCEPT !.reply = "admin_panel"]
             ELSE [base EXCEPT !.reply = "unauthorized"]

\* uuid4: an id the store does not hold.  The ids are opaque and the
\* handlers treat them alike, so the first unused one stands for any.
FreshIds ==
    LET unused == {i \in 1..Len(Letters) :
                      <<Letters[i]>> \notin (DOMAIN files_col \cup DOMAIN batches_col)}
    IN  {<<Letters[i]>> : i \in {j \in unused : \A k \in unused : j <= k}}

\* The payloads a /start deep link carries: file_ and batch_ with a stored
\* id or with an id that is not stored, and one of neither shape.
Payloads ==
    {FILE_ \o id : id \in DOMAIN files_col \cup FreshIds}
        \cup {BATCH_ \o id : id \in DOMAIN batches_col \cup FreshIds}
        \cup {<<"x">>}

\* start: the upsert of the user, then the dispatch.  db.users is written
\* here and read by stats alone: the write shows only when it raises.
start_outcome(u, args, st, err) ==
    IF err = "users_db"
    THEN [NoEvent EXCEPT !.h = "start", !.user = u,
                         !.err = "users_db", !.fault = "DbError"]
    ELSE start_dispatch(u, args, st, err)

start(u, args, st, err) ==
    LET out == start_outcome(u, args, st, err)
    IN  /\ out.err = err
        /\ answered(st, out.queried)
        /\ out.reply = "join_prompt" => BagCardinality(prompts) < MaxPrompts
        /\ prompts' = IF out.reply = "join_prompt"
                      THEN prompts (+) SetToBag({[chat |-> u, data |-> out.data]})
                      ELSE prompts
        /\ last' = [out EXCEPT !.arg = IF args = <<>> THEN <<>> ELSE args[1]]
        /\ UNCHANGED <<ADMINS, startup_pc, files_col, batches_col, archive, user_data>>

(* ---------------------- redemption: Verify callback -------------------- *)

\* file_id = query.data[7:]
callback_file_id(data) == slice_from(data, 7)

\* handle_callback for the user u pressing the button of prompt p.  The
\* handler reads query.bot.  The repository pins no version of
\* python-telegram-bot: the versions that have ApplicationBuilder (20 and
\* later) give a CallbackQuery get_bot() and no attribute bot, so the read
\* raises AttributeError there; qbot says whether the installed library
\* resolves the attribute.
callback_outcome(u, p, st, err, qbot) ==
    LET base == [NoEvent EXCEPT !.h = "handle_callback", !.user = u,
                                !.arg = p.data, !.data = p.data]
        file_id == callback_file_id(p.data)
        file_data == find_one(files_col, file_id)
        m == check_membership(st)
        asked == [base EXCEPT !.standing = answers(st, m.queried)]
    IN  IF ~startswith(p.data, VERIFY_)
        THEN base
        ELSE IF ~qbot
        THEN [base EXCEPT !.fault = "AttributeError"]
        ELSE IF m.raised
        THEN [asked EXCEPT !.queried = m.queried, !.fault = "MembershipError"]
        ELSE IF ~m.allowed
        THEN [asked EXCEPT !.gate = "deny", !.queried = m.queried,
                           !.reply = "still_not_joined"]
        ELSE IF err = "db"
        THEN [asked EXCEPT !.gate = "allow", !.queried = m.queried,
                           !.err = "db", !.fault = "DbError"]
        ELSE IF file_data = <<>>
        THEN [asked EXCEPT !.gate = "allow", !.queried = m.queried,
                           !.reply = "file_not_found"]
        ELSE IF err = "copy"
        THEN [asked EXCEPT !.gate = "allow", !.queried = m.queried,
                           !.err = "copy", !.fault = "TelegramError"]
        ELSE [asked EXCEPT !.gate = "allow", !.queried = m.queried,
                           !.reply = "deleted",
                           !.sent = <<[to |-> u, chat |-> DUMP_CHANNEL,
                                       message_id |-> file_data[1].message_id]>>]

\* query.message.delete() and query.message.edit_text(text) both leave the
\* message without its Verify button.
handle_callback(u, p, st, err, qbot) ==
    LET out == callback_outcome(u, p, st, err, qbot)
    IN  /\ BagIn(p, prompts)
        /\ out.err = err
        /\ answered(st, out.queried)
        /\ prompts' = IF out.reply \in {"deleted", "file_not_found", "still_not_joined"}
                      THEN prompts (-) SetToBag({p})
                      ELSE prompts
        /\ last' = out
        /\ UNCHANGED <<ADMINS, startup_pc, files_col, batches_col, archive, user_data>>

(* ------------------------------ uploads -------------------------------- *)

\* `document or photo[-1] if photo else None` parses as
\* `(document or photo[-1]) if photo else None`.
uploaded_file(msg) ==
    IF msg.photo /= <<>>
    THEN IF msg.document /= None THEN msg.document ELSE msg.photo[Len(msg.photo)]
    ELSE None

\* store_file for an admin: forward, pick the file, insert, reply.
store_outcome(u, msg, id, err) ==
    LET base == [NoEvent EXCEPT !.h = "store_file", !.user = u]
        file == uploaded_file(msg)
    IN  IF err = "fwd"
        THEN [base EXCEPT !.err = "fwd", !.caught = "TelegramError",
                          !.reply = "failed_store"]
        ELSE IF file = None
        THEN [base EXCEPT !.caught = "AttributeError", !.reply = "failed_store"]
        ELSE IF err = "db"
        THEN [base EXCEPT !.err = "db", !.caught = "DbError",
                          !.reply = "failed_store"]
        ELSE [base EXCEPT !.reply = "stored", !.link = generate_link(id, FALSE)]

store_file(u, msg, id, err) ==
    LET out == store_outcome(u, msg, id, err)
    IN  IF ~is_admin(u)
        THEN /\ err = "none"
             /\ last' = [NoEvent EXCEPT !.h = "store_file", !.user = u]
             /\ UNCHANGED <<ADMINS, startup_pc, files_col, batches_col, archive,
                            user_data, prompts>>
        ELSE /\ out.err = err
             /\ err /= "fwd" => archive_room(1)
             /\ archive' = IF err = "fwd" THEN archive
                           ELSE Append(archive, Forwarded(u, msg))
             /\ files_col' =
                    IF out.reply = "stored"
                    THEN insert_one(files_col, id,
                                    [message_id |-> Len(archive) + 1,
                                     file_id |-> uploaded_file(msg),
                                     uploader |-> u])
                    ELSE files_col
             /\ last' = out
             /\ UNCHANGED <<ADMINS, startup_pc, batches_col, user_data, prompts>>

(* --------------------------- batch sessions ---------------------------- *)

\* One dict for every user.
session_key_shared(u) == CHOOSE v \in Users : TRUE

\* context.user_data is the dict the application keeps for the user the
\* update comes from.
session_key(u) == u

\* /batch on an open session starting the session anew.
append_to_batch_reset(d, msg) == NewSession

\* context.user_data["batch_files"].append(update.message)
append_to_batch(d, msg) == [d EXCEPT !["batch_files"] = Append(@, msg)]

handle_batch(u) ==
    LET d == user_data[session_key(u)]
        base == [NoEvent EXCEPT !.h = "handle_batch", !.user = u]
    IN  IF ~is_admin(u)
        THEN /\ last' = base
             /\ UNCHANGED <<ADMINS, startup_pc, files_col, batches_col, archive,
                            user_data, prompts>>
        ELSE IF ~get_flag(d, "batch_mode")
        THEN /\ user_data' = [user_data EXCEPT ![session_key(u)] = NewSession]
             /\ last' = [base EXCEPT !.reply = "batch_activated"]
             /\ UNCHANGED <<ADMINS, startup_pc, files_col, batches_col, archive, prompts>>
        ELSE /\ Len(d["batch_files"]) < MaxPending
             /\ user_data' =
                    [user_data EXCEPT ![session_key(u)] =
                        append_to_batch(d, CommandMessage(u))]
             /\ last' = [base EXCEPT !.reply = "file_added"]
             /\ UNCHANGED <<ADMINS, startup_pc, files_col, batches_col, archive, prompts>>

RECURSIVE forward_all(_, _, _, _, _)
\* The loop of end_batch from the k-th file on, the channel holding n
\* messages: forward f, then read f.document.file_id.  The forward of the
\* failAt-th file raises.
forward_all(files, k, n, failAt, acc) ==
    IF k > Len(files)
    THEN [acc EXCEPT !.exc = "none"]
    ELSE IF k = failAt
    THEN [acc EXCEPT !.exc = "TelegramError"]
    ELSE LET f == files[k]
             fwd == Append(acc.fwd, Forwarded(f.from, f))
         IN  IF f.document = None
             THEN [acc EXCEPT !.fwd = fwd, !.exc = "AttributeError"]
             ELSE forward_all(files, k + 1, n + 1, failAt,
                      [acc EXCEPT !.fwd = fwd,
                                  !.messages = Append(@, [message_id |-> n + 1,
                                                          file_id |-> f.document])])

\* user_data after end_batch, were the clear in the success path only.
session_after_end_batch_on_success(d, caught) ==
    IF caught = "none" THEN EmptyDict ELSE d

\* user_data after the try of end_batch: `finally: context.user_data.clear()`.
session_after_end_batch(d, caught) == EmptyDict

\* The guard of end_batch, were it absent.
no_files_never(files) == FALSE

\* `if not (files := context.user_data.get("batch_files"))`: None and the
\* empty list alike.
no_files(files) == files = <<>>

end_batch(u, failAt, dbfail, id) ==
    LET d == user_data[session_key(u)]
        files == get_list(d, "batch_files")
        base == [NoEvent EXCEPT !.h = "end_batch", !.user = u, !.pending = files]
        loop == forward_all(files, 1, Len(archive), failAt,
                            [fwd |-> <<>>, messages |-> <<>>, exc |-> "none"])
        caught == IF loop.exc /= "none" THEN loop.exc
                  ELSE IF dbfail THEN "DbError" ELSE "none"
    IN  IF no_files(files)
        THEN /\ failAt = 0 /\ ~dbfail
             /\ last' = [base EXCEPT !.reply = "no_files"]
             /\ UNCHANGED <<ADMINS, startup_pc, files_col, batches_col, archive,
                            user_data, prompts>>
        ELSE /\ failAt /= 0 => loop.exc = "TelegramError"
             /\ dbfail => loop.exc = "none"
             /\ archive_room(Len(loop.fwd))
             /\ archive' = archive \o loop.fwd
             /\ batches_col' = IF caught = "none"
                               THEN insert_one(batches_col, id, [files |-> loop.messages])
                               ELSE batches_col
             /\ user_data' = [user_data EXCEPT
                                 ![session_key(u)] = session_after_end_batch(d, caught)]
             /\ last' = [base EXCEPT
                            !.err = IF failAt /= 0 THEN "fwd"
                                    ELSE IF dbfail THEN "db" ELSE "none",
                            !.caught = caught,
                            !.reply = IF caught = "none" THEN "batch_stored"
                                      ELSE "failed_batch",
                            !.link = IF caught = "none" THEN generate_link(id, TRUE)
                                     ELSE <<>>]
             /\ UNCHANGED <<ADMINS, startup_pc, files_col, prompts>>

(* --------------------------- HTTP endpoints ---------------------------- *)

\* The URLs a client requests: the links generate_link makes.
Urls ==
    {generate_link(id, FALSE) : id \in DOMAIN files_col \cup FreshIds}
        \cup {generate_link(id, TRUE) : id \in DOMAIN batches_col \cup FreshIds}

RECURSIVE file_paths(_)
\* serve_batch's loop: get_file for each entry of the batch.
file_paths(entries) ==
    IF entries = <<>> THEN <<>>
    ELSE <<entries[1].file_id>> \o file_paths(Tail(entries))

serve_file(url, err) ==
    LET file_id == slice_from(url, Len(FILE_ROUTE))
        base == [NoEvent EXCEPT !.h = "serve_file", !.arg = url]
    IN  /\ startswith(url, FILE_ROUTE)
        /\ last' = IF err = "db"
                   THEN [base EXCEPT !.err = "db", !.fault = "DbError"]
                   ELSE IF file_id \notin DOMAIN files_col
                   THEN [base EXCEPT !.reply = "404"]
                   ELSE IF err = "get_file"
                   THEN [base EXCEPT !.err = "get_file", !.fault = "TelegramError"]
                   ELSE [base EXCEPT !.reply = "redirect",
                                     !.served = <<files_col[file_id].file_id>>]
        /\ last'.err = err
        /\ UNCHANGED <<ADMINS, startup_pc, files_col, batches_col, archive, user_data, prompts>>

serve_batch(url, err) ==
    LET batch_id == slice_from(url, Len(BATCH_ROUTE))
        base == [NoEvent EXCEPT !.h = "serve_batch", !.arg = url]
    IN  /\ startswith(url, BATCH_ROUTE)
        /\ last' = IF err = "db"
                   THEN [base EXCEPT !.err = "db", !.fault = "DbError"]
                   ELSE IF batch_id \notin DOMAIN batches_col
                   THEN [base EXCEPT !.reply = "404"]
                   ELSE IF err = "get_file"
                   THEN [base EXCEPT !.err = "get_file", !.fault = "TelegramError"]
                   ELSE [base EXCEPT !.reply = "200",
                                     !.served = file_paths(batches_col[batch_id].files)]
        /\ last'.err = err
        /\ UNCHANGED <<ADMINS, startup_pc, files_col, batches_col, archive, user_data, prompts>>

(* ------------------------------ startup -------------------------------- *)

\* What get_webhook_info answers: the expected url without a last error,
\* something else, or the call (or initialize, start) raises.
WebhookInfos == {"configured", "stale", "error"}
\* What set_webhook answers: success, "Flood control exceeded", another error.
SetWebhookResults == {"ok", "flood", "other"}

\* startup up to the test of webhook_info.
startup_get_webhook_info(info) ==
    /\ startup_pc = "get_webhook_info"
    /\ startup_pc' = CASE info = "configured" -> "done"
                        [] info = "stale" -> "set_webhook"
                        [] OTHER -> "raised"
    /\ UNCHANGED <<ADMINS, files_col, batches_col, archive, user_data, prompts, last>>

\* One turn of `while True`: set_webhook, then break, sleep or re-raise.
startup_set_webhook(result) ==
    /\ startup_pc = "set_webhook"
    /\ startup_pc' = CASE result = "ok" -> "done"
                        [] result = "flood" -> "sleep"
                        [] OTHER -> "raised"
    /\ UNCHANGED <<ADMINS, files_col, batches_col, archive, user_data, prompts, last>>

\* asyncio.sleep(1) returns and the loop turns again.
startup_sleep ==
    /\ startup_pc = "sleep"
    /\ startup_pc' = "set_webhook"
    /\ UNCHANGED <<ADMINS, files_col, batches_col, archive, user_data, prompts, last>>

\* The startup hook: the server takes requests once it returned.
startup ==
    \/ \E info \in WebhookInfos : startup_get_webhook_info(info)
    \/ \E result \in SetWebhookResults : startup_set_webhook(result)
    \/ startup_sleep

serving == startup_pc = "done"

(* ---------------------------- specification ---------------------------- *)

Next ==
    \/ \E info \in WebhookInfos : startup_get_webhook_info(info)
    \/ \E result \in SetWebhookResults : startup_set_webhook(result)
    \/ startup_sleep
    \/ /\ serving
       /\ \E u \in Users, args \in {<<>>} \cup {<<p>> : p \in Payloads},
             err \in {"none", "users_db", "db", "copy"} :
               \E st \in standings_for(start_outcome(u, args, Unasked, err).queried > 0) :
                   start(u, args, st, err)
    \/ /\ serving
       /\ \E u \in Users, p \in BagToSet(prompts), err \in {"none", "db", "copy"},
             qbot \in BOOLEAN :
               \E st \in standings_for(callback_outcome(u, p, Unasked, err, qbot).queried > 0) :
                   handle_callback(u, p, st, err, qbot)
    \/ /\ serving
       /\ \E u \in Users, msg \in Uploads, id \in FreshIds,
             err \in {"none", "fwd", "db"} : store_file(u, msg, id, err)
    \/ /\ serving
       /\ \E u \in Users : handle_batch(u)
    \/ /\ serving
       /\ \E u \in Users, failAt \in 0..MaxPending, dbfail \in BOOLEAN,
             id \in FreshIds : end_batch(u, failAt, dbfail, id)
    \/ /\ serving
       /\ \E url \in Urls, err \in {"none", "db", "get_file"} : serve_file(url, err)
    \/ /\ serving
       /\ \E url \in Urls, err \in {"none", "db", "get_file"} : serve_batch(url, err)

Spec == Init /\ [][Next]_vars

SpecRestart == InitRestart /\ [][Next]_vars

\* The deployment that lists both users as operators.
InitOperators ==
    /\ ADMINS = Users
    /\ startup_pc = "get_webhook_info"
    /\ files_col = [x \in {} |-> FALSE]
    /\ batches_col = [x \in {} |-> FALSE]
    /\ archive = <<>>
    /\ user_data = [u \in Users |-> EmptyDict]
    /\ prompts = EmptyBag
    /\ last = NoEvent

SpecOperators == InitOperators /\ [][Next]_vars

\* The event loop runs the startup coroutine whenever it can take a step.
SpecFair == Init /\ [][Next]_vars /\ WF_vars(startup)

(* ------------------------------- claims -------------------------------- *)

\* The requester has a standing other than "left" and "kicked" in every
\* channel of FORCE_SUBS, each of them asked without an error.
passes(st) == \A g \in Groups : st[g] \notin {"left", "kicked", "error", "unasked"}

\* The messages of the dump channel a batch record lists, copied to user u.
replay(u, files) ==
    [i \in 1..Len(files) |->
        [to |-> u, chat |-> DUMP_CHANNEL, message_id |-> files[i].message_id]]

\* C1: content is made available (a message of the dump channel copied to
\* the requester, or a file path returned over HTTP) only in a request in
\* which check_membership returned True.
C1_ContentOnlyAfterAllow ==
    (last.sent /= <<>> \/ last.served /= <<>>) => last.gate = "allow"

\* C2: whenever a handler ran check_membership, the verdict is Allow exactly
\* when every channel was asked without error and none answered "left" or
\* "kicked"; an error of get_chat_member gives Deny and never leaves the
\* handler as a fault.
C2_MembershipFailClosed ==
    last.queried > 0 =>
        /\ last.gate \in {"allow", "deny"}
        /\ last.gate = "allow" <=> passes(last.standing)
        /\ last.fault /= "MembershipError"

\* C2, witness: a check in which get_chat_member raised ended in Deny.
C2_Witness ==
    /\ last.gate = "deny"
    /\ \E g \in Groups : last.standing[g] = "error"

\* C3: a Deny at /start file_<id> leaves a prompt whose Verify button carries
\* verify_<id> for that stored id; and pressing the button of a prompt, with
\* no collaborator failing, runs the membership check for the user who
\* pressed it and, when that user passes, copies the message of that id to
\* that user.
C3_Step ==
    /\ (last'.h = "start" /\ last'.reply = "join_prompt") =>
          \E id \in DOMAIN files_col :
              /\ last'.arg = FILE_ \o id
              /\ last'.data = VERIFY_ \o id
              /\ BagIn([chat |-> last'.user, data |-> VERIFY_ \o id], prompts')
    /\ \A p \in BagToSet(prompts) :
          ( /\ last'.h = "handle_callback"
            /\ last'.data = p.data
            /\ last'.err = "none" ) =>
              \E id \in DOMAIN files_col :
                  /\ p.data = VERIFY_ \o id
                  /\ last'.gate \in {"allow", "deny"}
                  /\ last'.gate = "allow" <=> passes(last'.standing)
                  /\ last'.gate = "allow" =>
                        last'.sent = <<[to |-> last'.user, chat |-> DUMP_CHANNEL,
                                        message_id |-> files_col[id].message_id]>>

C3_RetryDelivers == [][C3_Step]_vars

\* C4: /endbatch on a session with n >= 1 files, no collaborator failing,
\* forwards the n files in order and inserts exactly one batch record, under
\* a new id, listing the n forwarded messages in order; the reply links it.
C4_Step ==
    \A u \in Users :
        LET files == get_list(user_data[u], "batch_files")
        IN  ( /\ last'.h = "end_batch"
              /\ last'.user = u
              /\ files /= <<>>
              /\ last'.err = "none" ) =>
                \E id \in (DOMAIN batches_col') \ (DOMAIN batches_col) :
                    /\ DOMAIN batches_col' = (DOMAIN batches_col) \cup {id}
                    /\ archive' = archive \o
                          [i \in 1..Len(files) |-> Forwarded(files[i].from, files[i])]
                    /\ Len(batches_col'[id].files) = Len(files)
                    /\ \A i \in 1..Len(files) :
                          batches_col'[id].files[i].message_id = Len(archive) + i
                    /\ last'.link = generate_link(id, TRUE)

C4_CloseCommitsBatch == [][C4_Step]_vars

\* C5: /start batch_<id> for a stored batch, no collaborator failing, either
\* copies every message of the batch to the requester in the stored order
\* (Allow) or answers with the join prompt (Deny).
C5_BatchReplay ==
    ( /\ last.h = "start"
      /\ startswith(last.arg, BATCH_)
      /\ slice_from(last.arg, 6) \in DOMAIN batches_col
      /\ last.err = "none" ) =>
        \/ /\ last.gate = "allow"
           /\ last.sent = replay(last.user, batches_col[slice_from(last.arg, 6)].files)
        \/ /\ last.gate = "deny"
           /\ last.reply = "join_prompt"

\* C6: an upload of an admin, document or photo, with the forward and the
\* insert succeeding, adds exactly one file record, under a new id, that
\* refers to the forwarded message, and the reply carries the link of the id.
C6_Step ==
    ( /\ last'.h = "store_file"
      /\ is_admin(last'.user)
      /\ last'.err = "none" ) =>
        \E id \in (DOMAIN files_col') \ (DOMAIN files_col) :
            /\ DOMAIN files_col' = (DOMAIN files_col) \cup {id}
            /\ files_col'[id].message_id = Len(archive')
            /\ last'.reply = "stored"
            /\ last'.link = generate_link(id, FALSE)

C6_UploadStored == [][C6_Step]_vars

\* C7: an upload of an admin whose batch session is open is appended to the
\* session's batch_files and stores no file record of its own.
C7_Step ==
    \A u \in Users :
        ( /\ last'.h = "store_file"
          /\ last'.user = u
          /\ last'.err = "none"
          /\ get_flag(user_data[u], "batch_mode") ) =>
            /\ Len(get_list(user_data'[u], "batch_files"))
                  = Len(get_list(user_data[u], "batch_files")) + 1
            /\ files_col' = files_col

C7_UploadJoinsOpenSession == [][C7_Step]_vars

\* C8: /endbatch delivered twice for a session with files, no collaborator
\* failing: the first commits the batch its reply links, the second commits
\* nothing more.
C8_Step ==
    ( /\ last.h = "end_batch"
      /\ last.pending /= <<>>
      /\ last.err = "none"
      /\ last'.h = "end_batch"
      /\ last'.user = last.user
      /\ last' /= last ) =>
        /\ batches_col' = batches_col
        /\ \E id \in DOMAIN batches_col' :
              /\ last.link = generate_link(id, TRUE)
              /\ Len(batches_col'[id].files) = Len(last.pending)

C8_DuplicateCloseCommitsOnce == [][C8_Step]_vars

\* C9: /endbatch on an open session without files ends the session, and the
\* /batch that follows a "no files" close opens a session.
C9_Step ==
    /\ \A u \in Users :
          ( /\ last'.h = "end_batch"
            /\ last'.user = u
            /\ get_flag(user_data[u], "batch_mode")
            /\ get_list(user_data[u], "batch_files") = <<>> ) =>
              ~get_flag(user_data'[u], "batch_mode")
    /\ ( /\ last.h = "end_batch"
         /\ last.reply = "no_files"
         /\ last'.h = "handle_batch"
         /\ last'.user = last.user
         /\ is_admin(last.user) ) =>
           last'.reply = "batch_activated"

C9_EmptyCloseEndsSession == [][C9_Step]_vars

\* C10: /endbatch on a session with files leaves the user without session
\* state, whatever the outcome of the commit, and the /batch that follows
\* opens a session without files.
C10_Step ==
    \A u \in Users :
        /\ ( /\ last'.h = "end_batch"
             /\ last'.user = u
             /\ get_list(user_data[u], "batch_files") /= <<>> ) =>
               /\ user_data'[u] = EmptyDict
               /\ last'.reply \in {"batch_stored", "failed_batch"}
        /\ ( /\ last.h = "end_batch"
             /\ last.user = u
             /\ last.pending /= <<>>
             /\ last'.h = "handle_batch"
             /\ last'.user = u ) =>
               /\ last'.reply = "batch_activated"
               /\ user_data'[u] = NewSession

C10_SessionClearedAfterClose == [][C10_Step]_vars

\* C10, witness: a close of a session with files whose commit failed left
\* the user without session state.
C10_Witness ==
    /\ last.h = "end_batch"
    /\ last.pending /= <<>>
    /\ last.caught /= "none"
    /\ user_data[last.user] = EmptyDict

\* C11: /endbatch of a user with no session, or with a session that holds no
\* files, inserts no batch record, forwards nothing, and answers "No files
\* in batch" without raising.
C11_Step ==
    \A u \in Users :
        ( /\ last'.h = "end_batch"
          /\ last'.user = u
          /\ get_list(user_data[u], "batch_files") = <<>> ) =>
            /\ batches_col' = batches_col
            /\ files_col' = files_col
            /\ archive' = archive
            /\ last'.reply = "no_files"
            /\ last'.fault = "none"
            /\ last'.caught = "none"

C11_EmptyCloseIsNoOp == [][C11_Step]_vars

\* C11, witness: a close of an open session without files answered "No
\* files in batch" and left the store as it was.
C11_Witness ==
    /\ last.h = "end_batch"
    /\ last.reply = "no_files"
    /\ get_flag(user_data[last.user], "batch_mode")
    /\ batches_col = [x \in {} |-> FALSE]


\* C12: with two operators, every message in an operator's batch_files was
\* sent by that operator; an event of one user leaves the session of every
\* other user as it was; and /endbatch forwards only messages of the user
\* who sent it.
C12_Step ==
    /\ \A u \in Users :
          LET files == get_list(user_data'[u], "batch_files")
          IN  \A i \in 1..Len(files) : files[i].from = u
    /\ \A v \in Users : v /= last'.user => user_data'[v] = user_data[v]
    /\ last'.h = "end_batch" =>
          /\ Len(archive') >= Len(archive)
          /\ \A i \in (Len(archive) + 1)..Len(archive') :
                archive'[i].from = last'.user

C12_SessionsIsolated == [][C12_Step]_vars

\* C12, witness: operator 1 closed a session with files while operator 2
\* held an open session with files, which is still there.
C12_Witness ==
    /\ last.h = "end_batch"
    /\ last.user = 1
    /\ last.pending /= <<>>
    /\ user_data[1] = EmptyDict
    /\ get_list(user_data[2], "batch_files") /= <<>>


\* C13: an upload, /batch or /endbatch of a user outside ADMINS forwards
\* nothing to the dump channel, inserts no file or batch record, and leaves
\* every user's session data as it was.
C13_Step ==
    ( /\ last'.h \in {"store_file", "handle_batch", "end_batch"}
      /\ last'.user \notin ADMINS ) =>
        /\ archive' = archive
        /\ files_col' = files_col
        /\ batches_col' = batches_col
        /\ user_data' = user_data

C13_NonOperatorChangesNothing == [][C13_Step]_vars

\* C13, witness: after an operator stored a file and opened a session, a
\* user outside ADMINS sent an upload, which was dropped.
C13_Witness ==
    /\ last.h = "store_file"
    /\ last.user \notin ADMINS
    /\ last.reply = "none"
    /\ files_col /= [x \in {} |-> FALSE]
    /\ \E u \in ADMINS : get_flag(user_data[u], "batch_mode")


\* C14: every step keeps every stored file and batch record under its id,
\* unchanged; and the id a reply links is one that was not stored before.
C14_Step ==
    /\ \A id \in DOMAIN files_col :
          id \in DOMAIN files_col' /\ files_col'[id] = files_col[id]
    /\ \A id \in DOMAIN batches_col :
          id \in DOMAIN batches_col' /\ batches_col'[id] = batches_col[id]
    /\ last'.reply = "stored" =>
          \E id \in (DOMAIN files_col') \ (DOMAIN files_col) :
              last'.link = generate_link(id, FALSE)
    /\ last'.reply = "batch_stored" =>
          \E id \in (DOMAIN batches_col') \ (DOMAIN batches_col) :
              last'.link = generate_link(id, TRUE)

C14_StoredRecordsStay == [][C14_Step]_vars

\* C14, witness: the file an earlier deployment stored was redeemed after
\* this one stored another file, and the batch record is still there.
C14_Witness ==
    /\ last.h = "start"
    /\ last.arg = FILE_ \o SeedFileId
    /\ last.sent = <<[to |-> last.user, chat |-> DUMP_CHANNEL,
                      message_id |-> SeedFile.message_id]>>
    /\ Cardinality(DOMAIN files_col) = 2
    /\ files_col[SeedFileId] = SeedFile
    /\ batches_col[SeedBatchId] = SeedBatch


\* C15: every Deny leaves a Verify button that carries the identifier: a
\* Deny at /start adds a prompt with verify_<id>, and a Deny at a press of
\* the button leaves the pressed prompt with its button.
C15_Step ==
    /\ (last'.h = "start" /\ last'.gate = "deny") =>
          /\ startswith(last'.data, VERIFY_)
          /\ BagIn([chat |-> last'.user, data |-> last'.data], prompts')
    /\ (last'.h = "handle_callback" /\ last'.gate = "deny") =>
          \A p \in BagToSet(prompts) :
              p.data = last'.data => CopiesIn(p, prompts') >= CopiesIn(p, prompts)

C15_DenyKeepsRetry == [][C15_Step]_vars


\* The channels the requester fails: those that answer "left" or "kicked",
\* or whose query raises.
failing(st) == {g \in Groups : st[g] \in {"left", "kicked", "error"}}

\* C16: at a Deny of /start, with no query raising, every channel of
\* FORCE_SUBS was asked and the prompt has a join button for exactly the
\* channels the requester fails.
C16_EveryGroupEvaluated ==
    ( /\ last.h = "start"
      /\ last.gate = "deny"
      /\ \A g \in Groups : last.standing[g] /= "error" ) =>
        /\ last.queried = Len(FORCE_SUBS)
        /\ {last.joins[i] : i \in 1..Len(last.joins)} = failing(last.standing)
        /\ Len(last.joins) = Cardinality(failing(last.standing))


\* C17: /start with a payload that begins with neither file_ nor batch_,
\* the upsert not failing, is answered "invalid link", and runs no lookup,
\* no membership query and no copy.
C17_MalformedPayloadAnswered ==
    ( /\ last.h = "start"
      /\ last.arg /= <<>>
      /\ ~startswith(last.arg, FILE_)
      /\ ~startswith(last.arg, BATCH_)
      /\ last.err = "none" ) =>
        /\ last.reply = "invalid_link"
        /\ last.queried = 0
        /\ last.sent = <<>>


\* C18: /start file_<id> for an id without a record, the lookup not failing,
\* is answered "File not found": nothing is copied, no channel is asked and
\* no Verify button for the id exists; and a press of a button whose id has
\* no record copies nothing, whatever the channels answer and whichever
\* call fails.
C18_UnknownIdIsTerminal ==
    /\ ( /\ last.h = "start"
         /\ startswith(last.arg, FILE_)
         /\ slice_from(last.arg, 5) \notin DOMAIN files_col
         /\ last.err = "none" ) =>
           /\ last.reply = "file_not_found"
           /\ last.sent = <<>>
           /\ last.queried = 0
           /\ last.data = <<>>
           /\ \A p \in BagToSet(prompts) :
                 p.data /= VERIFY_ \o slice_from(last.arg, 5)
    /\ \A id \in IdPool \ DOMAIN files_col, u \in Users,
          st \in Asked, err \in {"none", "db", "copy"}, qbot \in BOOLEAN :
            callback_outcome(u, [chat |-> u, data |-> VERIFY_ \o id],
                             st, err, qbot).sent = <<>>

\* C18, witness: with a file stored, a request for another id was answered
\* "File not found".
C18_Witness ==
    /\ last.h = "start"
    /\ startswith(last.arg, FILE_)
    /\ last.reply = "file_not_found"
    /\ files_col /= [x \in {} |-> FALSE]


\* C19: /batch of an operator whose session is open keeps the session: the
\* flag stays set, the files collected so far stay, in order, with one entry
\* added after them, and the reply is "File added to batch".
C19_Step ==
    \A u \in Users :
        LET files == get_list(user_data[u], "batch_files")
            after == get_list(user_data'[u], "batch_files")
        IN  ( /\ last'.h = "handle_batch"
              /\ last'.user = u
              /\ u \in ADMINS
              /\ get_flag(user_data[u], "batch_mode") ) =>
                /\ get_flag(user_data'[u], "batch_mode")
                /\ Len(after) = Len(files) + 1
                /\ SubSeq(after, 1, Len(files)) = files
                /\ last'.reply = "file_added"

C19_OpenSignalKeepsSession == [][C19_Step]_vars

\* C19, witness: /batch arrived on a session that already held a file, and
\* the session holds two.
C19_Witness ==
    /\ last.h = "handle_batch"
    /\ last.reply = "file_added"
    /\ Len(get_list(user_data[last.user], "batch_files")) = 2


\* C20: the startup hook ends, by returning or by raising, whatever
\* set_webhook answers: also when every attempt is answered "Flood control
\* exceeded".
C20_StartupEnds == <>(startup_pc \in {"done", "raised"})


=============================================================================
